---------------------------- MODULE Spec2Model ----------------------------
(***************************************************************************)
(* Model of src/src/index.js: the rate-limit middleware, POST /api/create  *)
(* and GET /api/secret/:id of the ephemeral secret-sharing worker, over a  *)
(* TTL-capable key-value store (SECRETS_KV) and two keyed limiters.        *)
(* Each request is an independent unit of work; every `await` of the code  *)
(* is a point where other requests may run.                                *)
(***************************************************************************)
EXTENDS Naturals, Integers, Sequences, FiniteSets, TLC

(* ------------------------------ bounds -------------------------------- *)
\* number of requests that can be in flight at once
MaxProcs == 2
\* largest value Date.now() returns
MaxNow == 0
\* total number of rejected limiter and store calls
MaxFaults == 1

Procs == 1..MaxProcs
Times == 0..MaxNow

(* ------------------------------ CONFIG -------------------------------- *)
MAX_PAYLOAD_SIZE == 10 * 1024 * 1024
ID_LENGTH == 16
MAX_ID_LENGTH == 32
MIN_TTL == 60
DEFAULT_TTL == 24 * 60 * 60
READ_ONCE_TTL == 24 * 60 * 60
MaxAttempts == 3

(* --------------------------- JavaScript values ------------------------ *)
Undefined == [t |-> "undefined"]
NaN == [t |-> "nan"]
JFunction == [t |-> "function"]
JNum(n) == [t |-> "number", v |-> n]
JBool(b) == [t |-> "boolean", v |-> b]
\* a string is known by its text and its length
JStr(s, n) == [t |-> "string", s |-> s, len |-> n]

\* ToBoolean
Truthy(x) ==
  CASE x.t = "undefined" -> FALSE
    [] x.t = "nan" -> FALSE
    [] x.t = "number" -> x.v # 0
    [] x.t = "boolean" -> x.v
    [] x.t = "string" -> x.len # 0
    [] OTHER -> TRUE

\* ToNumber, for the values Math.max is applied to here
ToNumber(x) ==
  CASE x.t = "number" -> x
    [] x.t = "boolean" -> JNum(IF x.v THEN 1 ELSE 0)
    [] OTHER -> NaN

\* Math.max(a, b)
MathMax(a, b) ==
  LET x == ToNumber(a)
      y == ToNumber(b)
  IN IF x.t = "nan" \/ y.t = "nan" THEN NaN
     ELSE IF x.v >= y.v THEN x ELSE y

(* ------------------------------ TTL table ----------------------------- *)
\* own properties of CONFIG.TTL_MAP
TTL_MAP_Own ==
  [k \in {"5min", "30min", "1hour", "6hour", "1day"} |->
     CASE k = "5min" -> 5 * 60
       [] k = "30min" -> 30 * 60
       [] k = "1hour" -> 60 * 60
       [] k = "6hour" -> 6 * 60 * 60
       [] k = "1day" -> 24 * 60 * 60]

\* properties every object literal inherits from Object.prototype
ObjectPrototypeKeys ==
  {"constructor", "toString", "toLocaleString", "valueOf", "hasOwnProperty",
   "isPrototypeOf", "propertyIsEnumerable", "__proto__"}

\* CONFIG.TTL_MAP[expiryOption]: a property read on an object literal
TTL_MAP(expiryOption) ==
  IF expiryOption.t # "string" THEN Undefined
  ELSE IF expiryOption.s \in DOMAIN TTL_MAP_Own THEN JNum(TTL_MAP_Own[expiryOption.s])
  ELSE IF expiryOption.s \in ObjectPrototypeKeys THEN JFunction
  ELSE Undefined

\* A || B
OrElse(a, b) == IF Truthy(a) THEN a ELSE b

\* a TTL taken from the expiry table whatever readOnce is, to compare against
effectiveKvTtlFromTable(expiryOption, readOnce) ==
  MathMax(OrElse(TTL_MAP(expiryOption), JNum(DEFAULT_TTL)), JNum(MIN_TTL))

\* const effectiveKvTtl = Math.max(readOnce ? READ_ONCE_TTL : (TTL_MAP[expiryOption] || DEFAULT_TTL), MIN_TTL)
effectiveKvTtl(expiryOption, readOnce) ==
  MathMax(IF Truthy(readOnce) THEN JNum(READ_ONCE_TTL)
          ELSE OrElse(TTL_MAP(expiryOption), JNum(DEFAULT_TTL)),
          JNum(MIN_TTL))

(* ----------------------------- identifiers ---------------------------- *)
characters ==
  << "A","B","C","D","E","F","G","H","I","J","K","L","M",
     "N","O","P","Q","R","S","T","U","V","W","X","Y","Z",
     "a","b","c","d","e","f","g","h","i","j","k","l","m",
     "n","o","p","q","r","s","t","u","v","w","x","y","z",
     "0","1","2","3","4","5","6","7","8","9" >>

Alphanumeric == {characters[i] : i \in 1..Len(characters)}

\* an id generator that indexes the alphabet with the raw byte, to compare
\* against
generateIdRawIndex(randomValues) ==
  [i \in 1..Len(randomValues) |->
     IF randomValues[i] < Len(characters) THEN characters[randomValues[i] + 1] ELSE "?"]

\* generateId: each random byte v becomes characters[v % characters.length]
generateId(randomValues) ==
  [i \in 1..Len(randomValues) |-> characters[(randomValues[i] % Len(characters)) + 1]]

\* the outputs of crypto.getRandomValues the model draws from: 16 equal bytes
RandomBytes == {0, 1, 62}
RandomDraws == {[i \in 1..ID_LENGTH |-> b] : b \in RandomBytes}

IdPool == {generateId(r) : r \in RandomDraws}

Repeat(ch, n) == [i \in 1..n |-> ch]

(* ------------------------------ validators ---------------------------- *)
Valid == [valid |-> TRUE]
Invalid(msg) == [valid |-> FALSE, error |-> msg]

validatePayload(encryptedPayload) ==
  IF ~Truthy(encryptedPayload) THEN Invalid("Encrypted payload is required")
  ELSE IF encryptedPayload.t # "string" THEN Invalid("Invalid payload type")
  ELSE IF encryptedPayload.len = 0 THEN Invalid("Payload cannot be empty")
  ELSE IF encryptedPayload.len > MAX_PAYLOAD_SIZE THEN Invalid("Payload too large")
  ELSE Valid

\* a validator without the length limit, to compare against
validateSecretIdNoLength(id) ==
  IF Len(id) = 0 THEN Invalid("Invalid ID")
  ELSE IF ~(\A i \in 1..Len(id) : id[i] \in Alphanumeric) THEN Invalid("Invalid ID format")
  ELSE Valid

\* the :id route parameter is always a string, here a sequence of characters
validateSecretId(id) ==
  IF Len(id) = 0 THEN Invalid("Invalid ID")
  ELSE IF Len(id) > MAX_ID_LENGTH THEN Invalid("Invalid ID length")
  ELSE IF ~(\A i \in 1..Len(id) : id[i] \in Alphanumeric) THEN Invalid("Invalid ID format")
  ELSE Valid

(* ----------------------------- request inputs -------------------------- *)
\* request bodies as c.req.json() sees them: not JSON, the JSON null, an object
Body(e, x, r) == [json |-> "object", encryptedPayload |-> e, expiryOption |-> x, readOnce |-> r]

InvalidPayloads ==
  {Undefined, JNum(7), JStr("", 0), JStr("oversize", MAX_PAYLOAD_SIZE + 1)}

Bodies ==
  {[json |-> "invalid"], [json |-> "null"]}
  \cup {Body(e, Undefined, Undefined) : e \in InvalidPayloads}
  \cup {Body(JStr("abc123", 6), JStr("5min", 4), JBool(FALSE)),
        Body(JStr("x", 1), JStr("5min", 4), JBool(TRUE)),
        Body(JStr("x", 1), JStr("toString", 8), JBool(FALSE))}

ReadIds == IdPool \cup {<< >>, Repeat("A", MAX_ID_LENGTH + 1), <<"A", "-">>}

\* what the middleware sees of a request: a preflight or not; the route it is
\* dispatched to and its body or :id parameter are read when next() runs
Kinds == {"options", "api"}

NoReq == [kind |-> "none"]
NoResp == [status |-> 0]
NoId == << >>
None == [t |-> "none"]

Json(status, body) == [status |-> status, body |-> body]
Err(status, msg) == Json(status, [error |-> msg])

\* what a preflight is answered with: 204 by cors(), 404 by app.notFound
PreflightResponses == {[status |-> 204], Err(404, "Not Found")}

\* what a rejected call or a failed statement throws: an Error with a message
\* destructuring a null body
TypeErrors == {[message |-> "Cannot destructure property 'encryptedPayload' of 'body' as it is null."]}
\* a SECRETS_KV call rejecting
StoreErrors == {[message |-> "KV request failed: 500 Internal Server Error"],
                [message |-> "KV request failed: 400 Invalid expiration_ttl"]}
Errors == TypeErrors \cup StoreErrors

\* a catch that answers 200, to compare against
CreateCatchOk(e) == Json(200, [error |-> "Failed to create secret"])

\* catch (e) of POST /api/create
CreateCatch(e) == Err(500, "Failed to create secret")

\* catch (e) of GET /api/secret/:id
ReadCatch(e) == Err(500, "Failed to retrieve secret")

\* app.onError((err, c) => ...)
OnError(err) == Err(500, "Internal Server Error")

(* -------------------------------- state -------------------------------- *)
VARIABLES
  env,       \* which limiter bindings the environment has
  store,     \* SECRETS_KV: id -> entry or None
  pc,        \* where each request is
  req,       \* the request each unit of work handles
  lim,       \* the two limit calls of each request, while the middleware awaits them
  limErr,    \* history: a limit call of the request was rejected
  loc,       \* the handler's local variables: attempts, secretId, creationTime
  resp,      \* the response returned to the client
  ran,       \* history: how many times a route handler was started for the request
  kvOps,     \* history: store calls issued by the request
  kvFail,    \* history: whether a store call of the request failed in the backend
  sweep,     \* history: how cleanup deletes of each id ended since its last put
  raced,     \* history: another put landed on the request's id after its check
  faults,    \* history: limiter and store calls rejected so far
  calc       \* a function of the module applied on its own: input and result

vars == << env, store, pc, req, lim, limErr, loc, resp, ran, kvOps, kvFail, sweep, raced, faults, calc >>

\* everything but calc
workerVars == << env, store, pc, req, lim, limErr, loc, resp, ran, kvOps, kvFail, sweep, raced, faults >>

\* no function is being applied on its own
NoCalc == [fn |-> "none"]

NoLim == [short |-> "none", long |-> "none"]
NoLoc == [attempts |-> 0, secretId |-> NoId, creationTime |-> 0]

\* the worker before its first request
Fresh ==
  /\ env \in [LIMITER_SHORT : BOOLEAN, LIMITER_OK : BOOLEAN]
  /\ store = [i \in IdPool |-> None]
  /\ pc = [p \in Procs |-> "idle"]
  /\ req = [p \in Procs |-> NoReq]
  /\ lim = [p \in Procs |-> NoLim]
  /\ limErr = [p \in Procs |-> FALSE]
  /\ loc = [p \in Procs |-> NoLoc]
  /\ resp = [p \in Procs |-> NoResp]
  /\ ran = [p \in Procs |-> 0]
  /\ kvOps = [p \in Procs |-> 0]
  /\ kvFail = [p \in Procs |-> FALSE]
  /\ sweep = [i \in IdPool |-> "none"]
  /\ raced = [p \in Procs |-> FALSE]
  /\ faults = 0

Init == Fresh /\ calc = NoCalc

InFlight(p) == pc[p] \notin {"idle", "done"}

\* SECRETS_KV lookup of any key
Lookup(id) == IF id \in DOMAIN store THEN store[id] ELSE None

(* --------------------------- rate limit middleware --------------------- *)
\* a middleware that lets no method through unchecked, to compare against
BypassesNothing(kind) == FALSE

\* if (c.req.method === 'OPTIONS') return next()
Bypasses(kind) == kind = "options"

\* if (!c.env.LIMITER_SHORT || !c.env.LIMITER_OK)
BindingsMissing(e) == ~e.LIMITER_SHORT \/ ~e.LIMITER_OK

\* app.use('/api/*', async (c, next) => ...), up to the two limit calls
Receive(p, kind) ==
  /\ ~InFlight(p)
  /\ req' = [req EXCEPT ![p] = [kind |-> kind]]
  /\ loc' = [loc EXCEPT ![p] = NoLoc]
  /\ ran' = [ran EXCEPT ![p] = 0]
  /\ kvOps' = [kvOps EXCEPT ![p] = 0]
  /\ kvFail' = [kvFail EXCEPT ![p] = FALSE]
  /\ raced' = [raced EXCEPT ![p] = FALSE]
  /\ limErr' = [limErr EXCEPT ![p] = FALSE]
  /\ IF Bypasses(kind)
       THEN \* the cors middleware registered first answers a preflight itself;
            \* where it is passed on, return next() leads to app.notFound
            /\ \E r \in PreflightResponses : resp' = [resp EXCEPT ![p] = r]
            /\ pc' = [pc EXCEPT ![p] = "done"]
            /\ lim' = [lim EXCEPT ![p] = NoLim]
       ELSE IF BindingsMissing(env)
       THEN /\ resp' = [resp EXCEPT ![p] = Err(500, "Server configuration error")]
            /\ lim' = [lim EXCEPT ![p] = NoLim]
            /\ pc' = [pc EXCEPT ![p] = "done"]
       ELSE \* Promise.all([LIMITER_SHORT.limit(..), LIMITER_OK.limit(..)])
            /\ resp' = [resp EXCEPT ![p] = NoResp]
            /\ lim' = [lim EXCEPT ![p] = [short |-> "pending", long |-> "pending"]]
            /\ pc' = [pc EXCEPT ![p] = "limiting"]
  /\ UNCHANGED << calc, env, store, sweep, faults >>

\* one limit call settles: success true, success false, or a rejection
LimitReturn(p, w, outcome) ==
  /\ lim[p][w] = "pending"
  /\ lim' = [lim EXCEPT ![p][w] = outcome]
  /\ IF outcome = "error"
       THEN /\ faults < MaxFaults
            /\ faults' = faults + 1
            /\ limErr' = [limErr EXCEPT ![p] = TRUE]
       ELSE UNCHANGED << faults, limErr >>
  /\ UNCHANGED << calc, env, store, pc, req, loc, resp, ran, kvOps, kvFail, sweep, raced >>

\* a middleware that awaits the short-window call only, to compare against
PromiseAllSettledShortOnly(l) == l.short # "pending"

\* Promise.all settles: rejected as soon as one call rejects, else fulfilled
\* when both calls have
PromiseAllSettled(l) ==
  \/ l.short = "error" \/ l.long = "error"
  \/ (l.short # "pending" /\ l.long # "pending")

\* a middleware that looks at the daily window first, to compare against
DecisionLongFirst(l) ==
  IF l.short = "error" \/ l.long = "error" THEN "failopen"
  ELSE IF l.long # "ok" THEN "long"
  ELSE IF l.short # "ok" THEN "short"
  ELSE "allow"

\* the decision after await Promise.all: the catch branch, the two 429s, or next()
Decision(l) ==
  IF l.short = "error" \/ l.long = "error" THEN "failopen"
  ELSE IF l.short # "ok" THEN "short"
  ELSE IF l.long # "ok" THEN "long"
  ELSE "allow"

\* a middleware that fails closed in its catch branch, to compare against
RejectionFailClosed(d) ==
  CASE d = "short" -> Err(429, "Too Many Requests (Rate limit exceeded: 30s)")
    [] d = "long" -> Err(429, "Too Many Requests (Rate limit exceeded: Daily)")
    [] d = "failopen" -> Err(500, "Server configuration error")
    [] OTHER -> NoResp

\* what the middleware answers itself; NoResp where it awaits next() instead
\* (after both limiters succeed, and in the catch branch)
Rejection(d) ==
  CASE d = "short" -> Err(429, "Too Many Requests (Rate limit exceeded: 30s)")
    [] d = "long" -> Err(429, "Too Many Requests (Rate limit exceeded: Daily)")
    [] OTHER -> NoResp

Admit(p) ==
  /\ pc[p] = "limiting"
  /\ PromiseAllSettled(lim[p])
  /\ LET d == Decision(lim[p]) IN
       /\ resp' = [resp EXCEPT ![p] = Rejection(d)]
       /\ pc' = [pc EXCEPT ![p] = IF Rejection(d) # NoResp THEN "done" ELSE "next"]
       /\ \* a rejected Promise.all hands no results to the middleware
          lim' = [lim EXCEPT ![p] = IF d = "failopen" THEN NoLim ELSE @]
  /\ UNCHANGED << calc, env, store, req, limErr, loc, ran, kvOps, kvFail, sweep, raced, faults >>

(* ------------------------------ POST /api/create ----------------------- *)
\* the entry a put stores: value, metadata, expirationTtl
Entry(body, creationTime) ==
  [value |-> body.encryptedPayload,
   metadata |-> [readOnce |-> JBool(Truthy(body.readOnce)),
                 creationTime |-> creationTime,
                 userExpiryOption |-> body.expiryOption],
   expirationTtl |-> effectiveKvTtl(body.expiryOption, body.readOnce)]

\* the backend takes an expirationTtl that is a number of at least 60 seconds
TtlAccepted(ttl) == ttl.t = "number" /\ ttl.v >= MIN_TTL

\* an allocator that takes the first candidate whatever the store holds, to
\* compare against
IdAcceptedAlways(existing) == TRUE

\* if (!existing) break
IdAccepted(existing) == ~Truthy(existing)

\* SECRETS_KV.get(id): the value, or null
KvGet(id) == IF Lookup(id) = None THEN Undefined ELSE Lookup(id).value

\* the handler up to its first store call: parse, validate, first candidate id
HandleCreate(p) ==
  /\ pc[p] = "next"
  /\ ran' = [ran EXCEPT ![p] = @ + 1]
  /\ \E body \in Bodies :
     /\ req' = [req EXCEPT ![p] = [kind |-> "create", body |-> body]]
     /\ IF body.json = "invalid"
         THEN /\ resp' = [resp EXCEPT ![p] = Err(400, "Invalid JSON")]
              /\ pc' = [pc EXCEPT ![p] = "done"]
              /\ UNCHANGED << loc, kvOps >>
         ELSE IF body.json = "null"
         THEN \* destructuring null throws; the outer catch answers
              /\ \E e \in TypeErrors : resp' = [resp EXCEPT ![p] = CreateCatch(e)]
              /\ pc' = [pc EXCEPT ![p] = "done"]
              /\ UNCHANGED << loc, kvOps >>
         ELSE IF ~validatePayload(body.encryptedPayload).valid
         THEN /\ resp' = [resp EXCEPT ![p] = Err(400, validatePayload(body.encryptedPayload).error)]
              /\ pc' = [pc EXCEPT ![p] = "done"]
              /\ UNCHANGED << loc, kvOps >>
         ELSE \E r \in RandomDraws :
              /\ loc' = [loc EXCEPT ![p] = [attempts |-> 0, secretId |-> generateId(r),
                                            creationTime |-> 0]]
              /\ kvOps' = [kvOps EXCEPT ![p] = @ + 1]
              /\ pc' = [pc EXCEPT ![p] = "c_get"]
              /\ resp' = resp
  /\ UNCHANGED << calc, env, store, lim, limErr, kvFail, sweep, raced, faults >>

\* SECRETS_KV.get(secretId) returns: break, retry with a new id, or give up
CreateGet(p) ==
  /\ pc[p] = "c_get"
  /\ \/ \* the get rejects: caught by the handler's catch
        /\ faults < MaxFaults
        /\ faults' = faults + 1
        /\ kvFail' = [kvFail EXCEPT ![p] = TRUE]
        /\ \E e \in StoreErrors : resp' = [resp EXCEPT ![p] = CreateCatch(e)]
        /\ pc' = [pc EXCEPT ![p] = "done"]
        /\ UNCHANGED << loc, kvOps >>
     \/ /\ IdAccepted(KvGet(loc[p].secretId))
        /\ \* creationTime: Date.now(), then the put is issued
           \E t \in Times : loc' = [loc EXCEPT ![p].creationTime = t]
        /\ kvOps' = [kvOps EXCEPT ![p] = @ + 1]
        /\ pc' = [pc EXCEPT ![p] = "c_put"]
        /\ UNCHANGED << resp, kvFail, faults >>
     \/ /\ ~IdAccepted(KvGet(loc[p].secretId))
        /\ IF loc[p].attempts + 1 < MaxAttempts
             THEN \E r \in RandomDraws :
                  /\ loc' = [loc EXCEPT ![p].attempts = @ + 1, ![p].secretId = generateId(r)]
                  /\ kvOps' = [kvOps EXCEPT ![p] = @ + 1]
                  /\ UNCHANGED << resp, pc >>
             ELSE /\ loc' = [loc EXCEPT ![p].attempts = @ + 1]
                  /\ resp' = [resp EXCEPT ![p] = Err(503, "Service busy, please try again")]
                  /\ pc' = [pc EXCEPT ![p] = "done"]
                  /\ UNCHANGED kvOps
        /\ UNCHANGED << kvFail, faults >>
  /\ UNCHANGED << calc, env, store, req, lim, limErr, ran, sweep, raced >>

\* SECRETS_KV.put(secretId, encryptedPayload, {expirationTtl, metadata}) settles
CreatePut(p) ==
  /\ pc[p] = "c_put"
  /\ LET e == Entry(req[p].body, loc[p].creationTime) IN
     \/ \* the put rejects in the backend
        /\ faults < MaxFaults
        /\ faults' = faults + 1
        /\ kvFail' = [kvFail EXCEPT ![p] = TRUE]
        /\ \E err \in StoreErrors : resp' = [resp EXCEPT ![p] = CreateCatch(err)]
        /\ UNCHANGED << store, sweep, raced >>
     \/ \* the backend refuses the expirationTtl
        /\ ~TtlAccepted(e.expirationTtl)
        /\ \E err \in StoreErrors : resp' = [resp EXCEPT ![p] = CreateCatch(err)]
        /\ UNCHANGED << store, sweep, raced, kvFail, faults >>
     \/ /\ TtlAccepted(e.expirationTtl)
        /\ store' = [store EXCEPT ![loc[p].secretId] = e]
        /\ sweep' = [sweep EXCEPT ![loc[p].secretId] = "none"]
        /\ raced' = [q \in Procs |->
                       IF q # p /\ pc[q] = "c_put" /\ loc[q].secretId = loc[p].secretId
                       THEN TRUE ELSE raced[q]]
        /\ resp' = [resp EXCEPT ![p] = Json(200, [secretId |-> loc[p].secretId])]
        /\ UNCHANGED << kvFail, faults >>
  /\ pc' = [pc EXCEPT ![p] = "done"]
  /\ UNCHANGED << calc, env, req, lim, limErr, loc, ran, kvOps >>

(* ---------------------------- GET /api/secret/:id ---------------------- *)
\* the handler up to its store call: validate the id, issue getWithMetadata
HandleRead(p) ==
  /\ pc[p] = "next"
  /\ ran' = [ran EXCEPT ![p] = @ + 1]
  /\ \E id \in ReadIds :
       /\ req' = [req EXCEPT ![p] = [kind |-> "read", id |-> id]]
       /\ IF ~validateSecretId(id).valid
            THEN /\ resp' = [resp EXCEPT ![p] = Err(400, validateSecretId(id).error)]
                 /\ pc' = [pc EXCEPT ![p] = "done"]
                 /\ UNCHANGED kvOps
            ELSE /\ kvOps' = [kvOps EXCEPT ![p] = @ + 1]
                 /\ pc' = [pc EXCEPT ![p] = "r_get"]
                 /\ resp' = resp
  /\ UNCHANGED << calc, env, store, lim, limErr, loc, kvFail, sweep, raced, faults >>

\* a read that never schedules the delete, to compare against
SchedulesCleanupNever(metadata) == FALSE

\* a read that schedules the delete for every secret it finds, to compare
\* against
SchedulesCleanupAlways(metadata) == TRUE

\* if (metadata?.readOnce)
SchedulesCleanup(metadata) == Truthy(metadata.readOnce)

\* a delete that removes nothing, to compare against
KvDeleteNothing(s, id) == s

\* SECRETS_KV.delete(id), when it succeeds
KvDelete(s, id) == [s EXCEPT ![id] = None]

\* if (!result || !result.value)
NotFound(result) == IF result = None THEN TRUE ELSE ~Truthy(result.value)

\* getWithMetadata(id) returns: 404, or 200 and, for a read-once secret, the
\* delete handed to executionCtx.waitUntil
ReadGet(p) ==
  /\ pc[p] = "r_get"
  /\ LET result == Lookup(req[p].id) IN
     \/ \* the get rejects
        /\ faults < MaxFaults
        /\ faults' = faults + 1
        /\ kvFail' = [kvFail EXCEPT ![p] = TRUE]
        /\ \E e \in StoreErrors : resp' = [resp EXCEPT ![p] = ReadCatch(e)]
        /\ pc' = [pc EXCEPT ![p] = "done"]
        /\ UNCHANGED kvOps
     \/ /\ NotFound(result)
        /\ resp' = [resp EXCEPT ![p] = Err(404, "Secret not found or expired")]
        /\ pc' = [pc EXCEPT ![p] = "done"]
        /\ UNCHANGED << kvOps, kvFail, faults >>
     \/ /\ ~NotFound(result)
        /\ IF SchedulesCleanup(result.metadata)
             THEN \* executionCtx.waitUntil(SECRETS_KV.delete(id).catch(..))
                  /\ kvOps' = [kvOps EXCEPT ![p] = @ + 1]
                  /\ pc' = [pc EXCEPT ![p] = "r_cleanup"]
             ELSE /\ pc' = [pc EXCEPT ![p] = "done"]
                  /\ UNCHANGED kvOps
        /\ resp' = [resp EXCEPT ![p] = Json(200, [encryptedPayload |-> result.value,
                                                  metadata |-> result.metadata])]
        /\ UNCHANGED << kvFail, faults >>
  /\ UNCHANGED << calc, env, store, req, lim, limErr, loc, ran, sweep, raced >>

\* a read that reports the failed delete to the client, to compare against
AfterDeleteErrorSurfaced(response) == Err(500, "Failed to retrieve secret")

\* .catch(err => console.error('Delete Error:', err)): the rejection is logged
\* and the response already returned stays as it is
AfterDeleteError(response) == response

\* the delete handed to waitUntil settles, after the response was returned
CleanupDelete(p) ==
  /\ pc[p] = "r_cleanup"
  /\ \/ /\ store' = KvDelete(store, req[p].id)
        /\ sweep' = [sweep EXCEPT ![req[p].id] = "removed"]
        /\ UNCHANGED << resp, kvFail, faults >>
     \/ \* the delete rejects
        /\ faults < MaxFaults
        /\ faults' = faults + 1
        /\ kvFail' = [kvFail EXCEPT ![p] = TRUE]
        /\ resp' = [resp EXCEPT ![p] = AfterDeleteError(resp[p])]
        /\ sweep' = [sweep EXCEPT ![req[p].id] = IF @ = "none" THEN "failed" ELSE @]
        /\ UNCHANGED store
  /\ pc' = [pc EXCEPT ![p] = "done"]
  /\ UNCHANGED << calc, env, req, lim, limErr, loc, ran, kvOps, raced >>

(* ------------------------------- environment --------------------------- *)
\* the backend removes an entry whose expirationTtl has elapsed
Expire(id) ==
  /\ store[id] # None
  /\ store' = [store EXCEPT ![id] = None]
  /\ UNCHANGED << calc, env, pc, req, lim, limErr, loc, resp, ran, kvOps, kvFail, sweep, raced, faults >>

Next ==
  \/ \E p \in Procs, k \in Kinds : Receive(p, k)
  \/ \E p \in Procs, w \in {"short", "long"}, o \in {"ok", "deny", "error"} : LimitReturn(p, w, o)
  \/ \E p \in Procs : Admit(p)
  \/ \E p \in Procs : HandleCreate(p)
  \/ \E p \in Procs : CreateGet(p)
  \/ \E p \in Procs : CreatePut(p)
  \/ \E p \in Procs : HandleRead(p)
  \/ \E p \in Procs : ReadGet(p)
  \/ \E p \in Procs : CleanupDelete(p)
  \/ \E i \in IdPool : Expire(i)

Spec == Init /\ [][Next]_vars

\* the backend does remove an entry whose expirationTtl has elapsed: time
\* passes, and every entry is stored with an expirationTtl
\* a request arriving while no other request or background delete is under way
ReceiveInTurn(p, kind) ==
  /\ \A q \in Procs : ~InFlight(q)
  /\ Receive(p, kind)

LiveNext ==
  \/ \E p \in Procs, k \in Kinds : ReceiveInTurn(p, k)
  \/ \E p \in Procs, w \in {"short", "long"}, o \in {"ok", "deny", "error"} : LimitReturn(p, w, o)
  \/ \E p \in Procs : Admit(p)
  \/ \E p \in Procs : HandleCreate(p)
  \/ \E p \in Procs : CreateGet(p)
  \/ \E p \in Procs : CreatePut(p)
  \/ \E p \in Procs : HandleRead(p)
  \/ \E p \in Procs : ReadGet(p)
  \/ \E p \in Procs : CleanupDelete(p)
  \/ \E i \in IdPool : Expire(i)

LiveSpec == Init /\ [][LiveNext]_vars /\ \A i \in IdPool : WF_vars(Expire(i))

(* ----------- the second definition of the worker in the file ---------- *)
(* Lines 211-440 define the worker a second time: no rate limit            *)
(* middleware, other error messages, and catch blocks that add the thrown  *)
(* error's message to the response.                                        *)
validatePayloadV2(encryptedPayload) ==
  IF ~Truthy(encryptedPayload) THEN Invalid("Encrypted payload is required")
  ELSE IF encryptedPayload.t # "string" THEN Invalid("Invalid payload type")
  ELSE IF encryptedPayload.len = 0 THEN Invalid("Payload cannot be empty")
  ELSE IF encryptedPayload.len > MAX_PAYLOAD_SIZE
    THEN Invalid("Invalid payload or payload too large")
  ELSE Valid

validateSecretIdV2(id) ==
  IF Len(id) = 0 THEN Invalid("Secret ID is required")
  ELSE IF Len(id) > MAX_ID_LENGTH THEN Invalid("Invalid secret ID format")
  ELSE IF ~(\A i \in 1..Len(id) : id[i] \in Alphanumeric)
    THEN Invalid("Invalid secret ID format")
  ELSE Valid

getEffectiveTTL(expiryOption, readOnce) ==
  MathMax(IF Truthy(readOnce) THEN JNum(READ_ONCE_TTL)
          ELSE OrElse(TTL_MAP(expiryOption), JNum(DEFAULT_TTL)),
          JNum(MIN_TTL))

\* c.json({ error, details: e.message }, 500)
ErrDetails(msg, e) == Json(500, [error |-> msg, details |-> e.message])

CreateCatchV2(e) == ErrDetails("Failed to create secret", e)
ReadCatchV2(e) == ErrDetails("Failed to retrieve secret", e)
OnErrorV2(err) == ErrDetails("Internal server error", err)

\* const maxAttempts = 3
maxAttempts == 3

\* if (attempts >= maxAttempts) return c.json({ error: 'Failed to create secret' }, 500)
ExhaustedV2 == Err(500, "Failed to create secret")

PreflightResponsesV2 == {[status |-> 204], Err(404, "API endpoint not found")}

EntryV2(body, creationTime) ==
  [value |-> body.encryptedPayload,
   metadata |-> [readOnce |-> JBool(Truthy(body.readOnce)),
                 creationTime |-> creationTime,
                 userExpiryOption |-> body.expiryOption],
   expirationTtl |-> getEffectiveTTL(body.expiryOption, body.readOnce)]

\* a request arrives: cors(), then the route; this definition is followed
\* with its requests arriving one at a time
ReceiveV2(p, kind) ==
  /\ \A q \in Procs : ~InFlight(q)
  /\ req' = [req EXCEPT ![p] = [kind |-> kind]]
  /\ loc' = [loc EXCEPT ![p] = NoLoc]
  /\ ran' = [ran EXCEPT ![p] = 0]
  /\ kvOps' = [kvOps EXCEPT ![p] = 0]
  /\ kvFail' = [kvFail EXCEPT ![p] = FALSE]
  /\ raced' = [raced EXCEPT ![p] = FALSE]
  /\ IF kind = "options"
       THEN /\ \E r \in PreflightResponsesV2 : resp' = [resp EXCEPT ![p] = r]
            /\ pc' = [pc EXCEPT ![p] = "done"]
       ELSE /\ resp' = [resp EXCEPT ![p] = NoResp]
            /\ pc' = [pc EXCEPT ![p] = "next"]
  /\ UNCHANGED << calc, env, store, lim, limErr, sweep, faults >>

HandleCreateV2(p) ==
  /\ pc[p] = "next"
  /\ ran' = [ran EXCEPT ![p] = @ + 1]
  /\ \E body \in Bodies :
     /\ req' = [req EXCEPT ![p] = [kind |-> "create", body |-> body]]
     /\ IF body.json = "invalid"
         THEN /\ resp' = [resp EXCEPT ![p] = Err(400, "Invalid JSON format")]
              /\ pc' = [pc EXCEPT ![p] = "done"]
              /\ UNCHANGED << loc, kvOps >>
         ELSE IF body.json = "null"
         THEN /\ \E e \in TypeErrors : resp' = [resp EXCEPT ![p] = CreateCatchV2(e)]
              /\ pc' = [pc EXCEPT ![p] = "done"]
              /\ UNCHANGED << loc, kvOps >>
         ELSE IF ~validatePayloadV2(body.encryptedPayload).valid
         THEN /\ resp' = [resp EXCEPT ![p] =
                            Err(400, validatePayloadV2(body.encryptedPayload).error)]
              /\ pc' = [pc EXCEPT ![p] = "done"]
              /\ UNCHANGED << loc, kvOps >>
         ELSE \E r \in RandomDraws :
              /\ loc' = [loc EXCEPT ![p] = [attempts |-> 0, secretId |-> generateId(r),
                                            creationTime |-> 0]]
              /\ kvOps' = [kvOps EXCEPT ![p] = @ + 1]
              /\ pc' = [pc EXCEPT ![p] = "c_get"]
              /\ resp' = resp
  /\ UNCHANGED << calc, env, store, lim, limErr, kvFail, sweep, raced, faults >>

\* do { ... } while (attempts < maxAttempts), after a get returns
CreateGetV2(p) ==
  /\ pc[p] = "c_get"
  /\ \/ /\ faults < MaxFaults
        /\ faults' = faults + 1
        /\ kvFail' = [kvFail EXCEPT ![p] = TRUE]
        /\ \E e \in StoreErrors : resp' = [resp EXCEPT ![p] = CreateCatchV2(e)]
        /\ pc' = [pc EXCEPT ![p] = "done"]
        /\ UNCHANGED << loc, kvOps >>
     \/ /\ IdAccepted(KvGet(loc[p].secretId))
        /\ \E t \in Times : loc' = [loc EXCEPT ![p].creationTime = t]
        /\ kvOps' = [kvOps EXCEPT ![p] = @ + 1]
        /\ pc' = [pc EXCEPT ![p] = "c_put"]
        /\ UNCHANGED << resp, kvFail, faults >>
     \/ /\ ~IdAccepted(KvGet(loc[p].secretId))
        /\ IF loc[p].attempts + 1 < maxAttempts
             THEN \E r \in RandomDraws :
                  /\ loc' = [loc EXCEPT ![p].attempts = @ + 1, ![p].secretId = generateId(r)]
                  /\ kvOps' = [kvOps EXCEPT ![p] = @ + 1]
                  /\ UNCHANGED << resp, pc >>
             ELSE /\ loc' = [loc EXCEPT ![p].attempts = @ + 1]
                  /\ resp' = [resp EXCEPT ![p] = ExhaustedV2]
                  /\ pc' = [pc EXCEPT ![p] = "done"]
                  /\ UNCHANGED kvOps
        /\ UNCHANGED << kvFail, faults >>
  /\ UNCHANGED << calc, env, store, req, lim, limErr, ran, sweep, raced >>

CreatePutV2(p) ==
  /\ pc[p] = "c_put"
  /\ LET e == EntryV2(req[p].body, loc[p].creationTime) IN
     \/ /\ faults < MaxFaults
        /\ faults' = faults + 1
        /\ kvFail' = [kvFail EXCEPT ![p] = TRUE]
        /\ \E err \in StoreErrors : resp' = [resp EXCEPT ![p] = CreateCatchV2(err)]
        /\ UNCHANGED << store, sweep, raced >>
     \/ /\ ~TtlAccepted(e.expirationTtl)
        /\ \E err \in StoreErrors : resp' = [resp EXCEPT ![p] = CreateCatchV2(err)]
        /\ UNCHANGED << store, sweep, raced, kvFail, faults >>
     \/ /\ TtlAccepted(e.expirationTtl)
        /\ store' = [store EXCEPT ![loc[p].secretId] = e]
        /\ sweep' = [sweep EXCEPT ![loc[p].secretId] = "none"]
        /\ raced' = [q \in Procs |->
                       IF q # p /\ pc[q] = "c_put" /\ loc[q].secretId = loc[p].secretId
                       THEN TRUE ELSE raced[q]]
        /\ resp' = [resp EXCEPT ![p] = Json(200, [secretId |-> loc[p].secretId])]
        /\ UNCHANGED << kvFail, faults >>
  /\ pc' = [pc EXCEPT ![p] = "done"]
  /\ UNCHANGED << calc, env, req, lim, limErr, loc, ran, kvOps >>

HandleReadV2(p) ==
  /\ pc[p] = "next"
  /\ ran' = [ran EXCEPT ![p] = @ + 1]
  /\ \E id \in ReadIds :
       /\ req' = [req EXCEPT ![p] = [kind |-> "read", id |-> id]]
       /\ IF ~validateSecretIdV2(id).valid
            THEN /\ resp' = [resp EXCEPT ![p] = Err(400, validateSecretIdV2(id).error)]
                 /\ pc' = [pc EXCEPT ![p] = "done"]
                 /\ UNCHANGED kvOps
            ELSE /\ kvOps' = [kvOps EXCEPT ![p] = @ + 1]
                 /\ pc' = [pc EXCEPT ![p] = "r_get"]
                 /\ resp' = resp
  /\ UNCHANGED << calc, env, store, lim, limErr, loc, kvFail, sweep, raced, faults >>

ReadGetV2(p) ==
  /\ pc[p] = "r_get"
  /\ LET result == Lookup(req[p].id) IN
     \/ /\ faults < MaxFaults
        /\ faults' = faults + 1
        /\ kvFail' = [kvFail EXCEPT ![p] = TRUE]
        /\ \E e \in StoreErrors : resp' = [resp EXCEPT ![p] = ReadCatchV2(e)]
        /\ pc' = [pc EXCEPT ![p] = "done"]
        /\ UNCHANGED kvOps
     \/ /\ NotFound(result)
        /\ resp' = [resp EXCEPT ![p] = Err(404, "Secret not found or expired")]
        /\ pc' = [pc EXCEPT ![p] = "done"]
        /\ UNCHANGED << kvOps, kvFail, faults >>
     \/ /\ ~NotFound(result)
        /\ IF SchedulesCleanup(result.metadata)
             THEN /\ kvOps' = [kvOps EXCEPT ![p] = @ + 1]
                  /\ pc' = [pc EXCEPT ![p] = "r_cleanup"]
             ELSE /\ pc' = [pc EXCEPT ![p] = "done"]
                  /\ UNCHANGED kvOps
        /\ resp' = [resp EXCEPT ![p] = Json(200, [encryptedPayload |-> result.value,
                                                  metadata |-> result.metadata])]
        /\ UNCHANGED << kvFail, faults >>
  /\ UNCHANGED << calc, env, store, req, lim, limErr, loc, ran, sweep, raced >>

\* the delete handed to waitUntil settles; a rejection is logged
CleanupDeleteV2(p) ==
  /\ pc[p] = "r_cleanup"
  /\ \/ /\ store' = KvDelete(store, req[p].id)
        /\ sweep' = [sweep EXCEPT ![req[p].id] = "removed"]
        /\ UNCHANGED << kvFail, faults >>
     \/ /\ faults < MaxFaults
        /\ faults' = faults + 1
        /\ kvFail' = [kvFail EXCEPT ![p] = TRUE]
        /\ sweep' = [sweep EXCEPT ![req[p].id] = IF @ = "none" THEN "failed" ELSE @]
        /\ UNCHANGED store
  /\ pc' = [pc EXCEPT ![p] = "done"]
  /\ UNCHANGED << calc, env, req, lim, limErr, loc, resp, ran, kvOps, raced >>

NextV2 ==
  \/ \E p \in Procs, k \in Kinds : ReceiveV2(p, k)
  \/ \E p \in Procs : HandleCreateV2(p)
  \/ \E p \in Procs : CreateGetV2(p)
  \/ \E p \in Procs : CreatePutV2(p)
  \/ \E p \in Procs : HandleReadV2(p)
  \/ \E p \in Procs : ReadGetV2(p)
  \/ \E p \in Procs : CleanupDeleteV2(p)
  \/ \E i \in IdPool : Expire(i)

\* this definition reads no limiter binding
InitV2 == Init /\ env = [LIMITER_SHORT |-> FALSE, LIMITER_OK |-> FALSE]

SpecV2 == InitV2 /\ [][NextV2]_vars

(* --------------------- the functions applied on their own ------------- *)
Pending == [t |-> "pending"]

\* payloads a request body can carry
PayloadInputs ==
  InvalidPayloads
  \cup {JNum(0), JBool(FALSE), JBool(TRUE),
        JStr("x", 1), JStr("abc123", 6), JStr("largest", MAX_PAYLOAD_SIZE)}

\* expiryOption values: absent, the five buckets, other strings, a number
ExpiryInputs ==
  {Undefined, JNum(300),
   JStr("5min", 4), JStr("30min", 5), JStr("1hour", 5), JStr("6hour", 5), JStr("1day", 4),
   JStr("", 0), JStr("2weeks", 6), JStr("5MIN", 4),
   JStr("toString", 8), JStr("constructor", 11), JStr("__proto__", 9)}

ReadOnceInputs == {Undefined, JBool(TRUE), JBool(FALSE)}

\* every value of a Uint8Array element
ByteValues == 0..255

\* strides between consecutive bytes of a draw
Strides == {0, 1, 37}

\* outputs of crypto.getRandomValues: ID_LENGTH bytes, starting anywhere and
\* going on by a stride
WideDraws ==
  {[i \in 1..ID_LENGTH |-> (b + (i - 1) * d) % (255 + 1)] : b \in ByteValues, d \in Strides}

CalcInit ==
  /\ Fresh
  /\ \/ \E e \in PayloadInputs :
          calc = [fn |-> "validatePayload", arg |-> e, out |-> Pending]
     \/ \E x \in ExpiryInputs, r \in ReadOnceInputs :
          calc = [fn |-> "effectiveKvTtl", expiryOption |-> x, readOnce |-> r, out |-> Pending]
     \/ \E x \in ExpiryInputs, r \in ReadOnceInputs :
          calc = [fn |-> "getEffectiveTTL", expiryOption |-> x, readOnce |-> r, out |-> Pending]
     \/ \E r \in WideDraws :
          calc = [fn |-> "generateId", randomValues |-> r, out |-> Pending, read |-> Pending]
     \/ calc = [fn |-> "tally", byte |-> 0, count |-> [c \in Alphanumeric |-> 0]]
     \/ \E e \in Errors, f \in {"onError", "onErrorV2"} :
          calc = [fn |-> f, err |-> e, out |-> Pending]

ApplyValidatePayload ==
  /\ calc.fn = "validatePayload" /\ calc.out = Pending
  /\ calc' = [calc EXCEPT !.out = validatePayload(calc.arg)]
  /\ UNCHANGED workerVars

ApplyEffectiveKvTtl ==
  /\ calc.fn = "effectiveKvTtl" /\ calc.out = Pending
  /\ calc' = [calc EXCEPT !.out = effectiveKvTtl(calc.expiryOption, calc.readOnce)]
  /\ UNCHANGED workerVars

ApplyGetEffectiveTTL ==
  /\ calc.fn = "getEffectiveTTL" /\ calc.out = Pending
  /\ calc' = [calc EXCEPT !.out = getEffectiveTTL(calc.expiryOption, calc.readOnce)]
  /\ UNCHANGED workerVars

ApplyGenerateId ==
  /\ calc.fn = "generateId" /\ calc.out = Pending
  /\ calc' = [calc EXCEPT !.out = generateId(calc.randomValues)]
  /\ UNCHANGED workerVars

\* the generated id comes back as the :id of a read
ApplyValidateSecretId ==
  /\ calc.fn = "generateId" /\ calc.out # Pending /\ calc.read = Pending
  /\ calc' = [calc EXCEPT !.read = validateSecretId(calc.out)]
  /\ UNCHANGED workerVars

\* the character of the next byte value is counted
Tally ==
  /\ calc.fn = "tally" /\ calc.byte \in ByteValues
  /\ calc' = [calc EXCEPT !.byte = @ + 1,
                          !.count[generateId(<< calc.byte >>)[1]] = @ + 1]
  /\ UNCHANGED workerVars

\* an error no handler caught reaches app.onError
ApplyOnError ==
  /\ calc.fn = "onError" /\ calc.out = Pending
  /\ calc' = [calc EXCEPT !.out = OnError(calc.err)]
  /\ UNCHANGED workerVars

ApplyOnErrorV2 ==
  /\ calc.fn = "onErrorV2" /\ calc.out = Pending
  /\ calc' = [calc EXCEPT !.out = OnErrorV2(calc.err)]
  /\ UNCHANGED workerVars

CalcNext ==
  \/ ApplyValidatePayload
  \/ ApplyEffectiveKvTtl
  \/ ApplyGetEffectiveTTL
  \/ ApplyGenerateId
  \/ ApplyValidateSecretId
  \/ Tally
  \/ ApplyOnError
  \/ ApplyOnErrorV2

CalcSpec == CalcInit /\ [][CalcNext]_vars

(* ------------------------------ properties ----------------------------- *)
ShortDenied == Err(429, "Too Many Requests (Rate limit exceeded: 30s)")
LongDenied == Err(429, "Too Many Requests (Rate limit exceeded: Daily)")
ConfigError == Err(500, "Server configuration error")

\* the request in slot p is one the middleware applies admission control to
NonPreflight(p) == req[p].kind \notin {"none", "options"}

\* every other slot has never been used: all requests so far ran one at a
\* time, each to the end of its background work, in slot p
Serial(p) == \A r \in Procs \ {p} : pc[r] = "idle"

\* both limit calls of p returned a verdict
BothReturned(p) ==
  /\ lim[p].short \in {"ok", "deny"}
  /\ lim[p].long \in {"ok", "deny"}

NotFoundResponse == Err(404, "Secret not found or expired")

\* the 200 a read gives for a stored entry
Found(entry) == Json(200, [encryptedPayload |-> entry.value, metadata |-> entry.metadata])

ReadOnceEntry(entry) == entry # None /\ entry.metadata.readOnce = JBool(TRUE)

\* the lookup of the read in slot q returns in this step, the backend having
\* answered it
Looks(q) == pc[q] = "r_get" /\ pc'[q] # "r_get" /\ ~kvFail'[q]

\* C1 as written: with requests running one at a time, a read that finds a
\* read-once secret answers 200 with the stored payload, and every read that
\* starts after a cleanup delete of its id has completed, whichever way it
\* ended, answers 404.
C1_GoneAfterCleanupCompletes ==
  \A q \in Procs :
    (Serial(q) /\ req[q].kind = "read" /\ req[q].id \in IdPool /\ ~kvFail[q]) =>
      /\ (pc[q] = "r_cleanup" /\ store[req[q].id] # None) =>
           resp[q] = Found(store[req[q].id])
      /\ (sweep[req[q].id] # "none"
            /\ (pc[q] = "r_cleanup" \/ (pc[q] = "done" /\ kvOps[q] = 1))) =>
           resp[q] = NotFoundResponse

\* C1: a read whose lookup finds a read-once secret answers 200 with the
\* stored payload and metadata and schedules the cleanup delete; a read whose
\* lookup comes after a cleanup delete of its id has succeeded, with no
\* create having stored under that id since, answers 404.
C1_GoneAfterCleanupSucceeds ==
  [][\A q \in Procs :
       Looks(q) =>
         /\ ReadOnceEntry(store[req[q].id]) =>
              (resp'[q] = Found(store[req[q].id]) /\ pc'[q] = "r_cleanup")
         /\ sweep[req[q].id] = "removed" => resp'[q] = NotFoundResponse]_vars

\* after a read-once secret was read and its cleanup succeeded, the next
\* read in the same slot was answered 404
C1_Witness ==
  \E q \in Procs :
    /\ Serial(q)
    /\ req[q].kind = "read" /\ req[q].id \in IdPool
    /\ pc[q] = "done" /\ kvOps[q] = 1
    /\ sweep[req[q].id] = "removed"
    /\ resp[q] = NotFoundResponse

\* the read in slot p was answered 200 with a read-once secret
ServedReadOnce(p) ==
  /\ req[p].kind = "read"
  /\ resp[p].status = 200
  /\ resp[p].body.metadata.readOnce = JBool(TRUE)

\* C2 as written: no two reads of one id are both answered 200 with the same
\* read-once payload.
C2_AtMostOneRead ==
  \A p, q \in Procs :
    (p # q /\ ServedReadOnce(p) /\ ServedReadOnce(q) /\ req[p].id = req[q].id) =>
      resp[p].body # resp[q].body

\* C2: every read answered 200 with a read-once secret has issued the
\* cleanup delete of its id, and an id whose cleanup delete has succeeded
\* holds no secret until a create stores one there.
C2_EveryReadSchedulesCleanup ==
  /\ \A p \in Procs :
       ServedReadOnce(p) => (kvOps[p] = 2 /\ pc[p] \in {"r_cleanup", "done"})
  /\ \A i \in IdPool : sweep[i] = "removed" => store[i] = None

\* two reads were answered with the same read-once secret; the cleanup of
\* one has removed it, the cleanup of the other is still outstanding
C2_Witness ==
  \E p, q \in Procs :
    /\ p # q
    /\ ServedReadOnce(p) /\ ServedReadOnce(q)
    /\ req[p].id = req[q].id
    /\ resp[p].body = resp[q].body
    /\ pc[p] = "done" /\ pc[q] = "r_cleanup"
    /\ sweep[req[p].id] = "removed"

\* a payload the create handler accepts
ValidPayload(e) == e.t = "string" /\ e.len > 0 /\ e.len <= MAX_PAYLOAD_SIZE

\* C3: with requests running one at a time and no limiter or store call
\* ever rejected, (a) a create with a valid payload, readOnce false and any
\* expiryOption, whose allocation found a free id, is answered 200 with that
\* id, (b) the entry under the id, until it expires, holds the submitted
\* payload with readOnce false and the supplied userExpiryOption, and (c) a
\* read of an id holding such an entry is answered 200 with exactly the
\* stored payload and metadata.
C3_RoundTrip ==
  \A p \in Procs :
    (Serial(p) /\ pc[p] = "done" /\ faults = 0) =>
      /\ (req[p].kind = "create" /\ req[p].body.json = "object"
            /\ ValidPayload(req[p].body.encryptedPayload)
            /\ req[p].body.readOnce = JBool(FALSE)
            /\ loc[p].attempts < MaxAttempts) =>
           /\ resp[p] = Json(200, [secretId |-> loc[p].secretId])
           /\ loc[p].secretId \in IdPool
           /\ store[loc[p].secretId] # None =>
                /\ store[loc[p].secretId].value = req[p].body.encryptedPayload
                /\ store[loc[p].secretId].metadata.readOnce = JBool(FALSE)
                /\ store[loc[p].secretId].metadata.userExpiryOption = req[p].body.expiryOption
      /\ (req[p].kind = "read" /\ req[p].id \in IdPool
            /\ store[req[p].id] # None
            /\ store[req[p].id].metadata.readOnce = JBool(FALSE)) =>
           resp[p] = Found(store[req[p].id])

\* the put of the create in slot p lands in this step
Puts(p) == pc[p] = "c_put" /\ pc'[p] = "done" /\ resp'[p].status = 200

\* C4 as written: a put lands only on an id that holds no secret, and the
\* entry of an id that holds a secret never changes.
C4_NeverCollides ==
  [][/\ \A p \in Procs : Puts(p) => store[loc[p].secretId] = None
     /\ \A i \in IdPool :
          (store[i] # None /\ store'[i] # None) => store'[i] = store[i]]_vars

\* C4: a put lands on an id that holds a secret only when another create's
\* put landed on that id after this create's existence check; the entry of
\* an id that holds a secret changes only by such a put.
C4_CollidesOnlyByRace ==
  [][/\ \A p \in Procs :
          Puts(p) => (store[loc[p].secretId] = None \/ raced[p])
     /\ \A i \in IdPool :
          (store[i] # None /\ store'[i] # None /\ store'[i] # store[i]) =>
            \E p \in Procs : Puts(p) /\ loc[p].secretId = i /\ raced[p]]_vars

\* a create answered 200 after another create's put landed on its id
C4_Witness ==
  \E p \in Procs :
    /\ req[p].kind = "create"
    /\ raced[p]
    /\ pc[p] = "done"
    /\ resp[p] = Json(200, [secretId |-> loc[p].secretId])

\* C5: when both limit calls return and the short window denies, the request
\* is answered 429 with the 30s message whatever the daily window said; when
\* the short window allows and the daily window denies, it is answered 429
\* with the Daily message; in both cases no handler runs and the store is
\* not called.
C5_DenyPriority ==
  \A p \in Procs :
    (pc[p] # "limiting" /\ BothReturned(p)) =>
      IF lim[p].short = "deny"
        THEN resp[p] = ShortDenied /\ pc[p] = "done" /\ ran[p] = 0 /\ kvOps[p] = 0
      ELSE IF lim[p].long = "deny"
        THEN resp[p] = LongDenied /\ pc[p] = "done" /\ ran[p] = 0 /\ kvOps[p] = 0
      ELSE resp[p].status # 429

\* both windows deny and the client is told about the short one
C5_Witness ==
  \E p \in Procs :
    /\ pc[p] = "done"
    /\ lim[p] = [short |-> "deny", long |-> "deny"]
    /\ resp[p] = ShortDenied

\* C6 as written: with a limiter binding absent, or a limit call rejected, a
\* non-preflight request is never answered by the middleware with 429 or
\* 500, and once it is answered its handler has run exactly once.
C6_FailOpenAlways ==
  \A p \in Procs :
    (NonPreflight(p) /\ (BindingsMissing(env) \/ limErr[p])) =>
      /\ resp[p].status # 429
      /\ resp[p] # ConfigError
      /\ ran[p] <= 1
      /\ (resp[p] # NoResp => ran[p] = 1)

\* C6: a request one of whose limit calls was rejected is never answered by
\* the middleware with 429 or 500, and once it is answered its handler has
\* run exactly once; with a limiter binding absent a non-preflight request
\* is answered 500 "Server configuration error", no handler runs and the
\* store is not called.
C6_FailOpenOnThrow ==
  \A p \in Procs :
    /\ limErr[p] =>
         /\ resp[p].status # 429
         /\ resp[p] # ConfigError
         /\ ran[p] <= 1
         /\ (resp[p] # NoResp => ran[p] = 1)
    /\ (NonPreflight(p) /\ BindingsMissing(env)) =>
         /\ resp[p] = ConfigError
         /\ pc[p] = "done"
         /\ ran[p] = 0
         /\ kvOps[p] = 0

\* a limit call was rejected and the create behind it still succeeded
C6_Witness ==
  \E p \in Procs :
    /\ limErr[p]
    /\ ran[p] = 1
    /\ req[p].kind = "create"
    /\ resp[p].status = 200

\* the middleware of p leaves its await of the two limit calls in this step
Decides(p) == pc[p] = "limiting" /\ pc'[p] # "limiting"

\* C7 as written: the middleware decides (429 or handler start) only when
\* neither limit call is outstanding, including when one of them fails.
C7_BothCompleted ==
  [][\A p \in Procs :
       Decides(p) => (lim[p].short \notin {"none", "pending"}
                      /\ lim[p].long \notin {"none", "pending"})]_vars

\* C7: both limit calls are issued before the middleware decides; it
\* answers 429, or starts the handler on the limiters' word, only when both
\* calls have returned; it decides with a call still outstanding only when
\* the other call was rejected, and then it starts the handler.
C7_CompletedUnlessRejected ==
  [][\A p \in Procs :
       Decides(p) =>
         /\ lim[p].short # "none" /\ lim[p].long # "none"
         /\ IF lim[p].short = "error" \/ lim[p].long = "error"
              THEN pc'[p] = "next" /\ resp'[p] = NoResp
              ELSE BothReturned(p)]_vars

\* one handler started after both calls returned, another after a rejection
C7_Witness ==
  \E p, q \in Procs :
    /\ lim[p] = [short |-> "ok", long |-> "ok"] /\ ran[p] = 1
    /\ limErr[q] /\ ran[q] = 1

\* C8: a preflight never has a limit call made for it, is never answered
\* 429 or 500 by the middleware and never reaches the store, whether the
\* limiter bindings are there or not.
C8_PreflightBypass ==
  \A p \in Procs :
    req[p].kind = "options" =>
      /\ lim[p] = NoLim
      /\ ~limErr[p]
      /\ resp[p].status \notin {429, 500}
      /\ pc[p] = "done"
      /\ kvOps[p] = 0

\* a preflight answered where an API request would get the configuration error
C8_Witness ==
  \E p \in Procs :
    /\ req[p].kind = "options"
    /\ BindingsMissing(env)
    /\ resp[p] \in PreflightResponses

\* an id the read handler has to refuse
BadId(id) ==
  \/ Len(id) = 0
  \/ Len(id) > MAX_ID_LENGTH
  \/ \E i \in 1..Len(id) : id[i] \notin Alphanumeric

\* C9: a create whose payload is absent, not a string, empty or over the
\* size limit is answered 400 with no id generated and no store call; a read
\* whose id is empty, longer than 32 characters or not alphanumeric is
\* answered 400 with no store call.
C9_ValidationFirst ==
  \A p \in Procs :
    /\ (req[p].kind = "create" /\ req[p].body.json = "object"
          /\ req[p].body.encryptedPayload \in InvalidPayloads) =>
         /\ resp[p].status = 400
         /\ pc[p] = "done"
         /\ loc[p].secretId = NoId
         /\ kvOps[p] = 0
    /\ (req[p].kind = "read" /\ BadId(req[p].id)) =>
         /\ resp[p].status = 400
         /\ pc[p] = "done"
         /\ kvOps[p] = 0

\* an oversized payload and an overlong id, both refused
C9_Witness ==
  \E p, q \in Procs :
    /\ req[p].kind = "create" /\ req[p].body.json = "object"
    /\ req[p].body.encryptedPayload = JStr("oversize", MAX_PAYLOAD_SIZE + 1)
    /\ resp[p].status = 400
    /\ req[q].kind = "read" /\ Len(req[q].id) > MAX_ID_LENGTH
    /\ resp[q].status = 400

\* C10: a read that has handed the cleanup delete to the runtime has
\* already been answered 200 with the read-once payload, while the delete is
\* outstanding, after it succeeded and after it failed.
C10_ResponseBeforeCleanup ==
  \A p \in Procs :
    (req[p].kind = "read" /\ kvOps[p] = 2) =>
      /\ resp[p].status = 200
      /\ ValidPayload(resp[p].body.encryptedPayload)
      /\ resp[p].body.metadata.readOnce = JBool(TRUE)

\* the cleanup delete failed and the client still has its 200
C10_Witness ==
  \E p \in Procs :
    /\ req[p].kind = "read"
    /\ kvOps[p] = 2
    /\ pc[p] = "done"
    /\ kvFail[p]
    /\ resp[p].status = 200

ServiceBusy == Err(503, "Service busy, please try again")

\* C11: a create makes at most 3 existence checks; it issues its one put
\* right after the first check that finds the candidate absent, on that
\* candidate; and it answers 503 "Service busy", having issued no put, exactly
\* when 3 candidates were found occupied.
C11_ThreeAttempts ==
  \A p \in Procs :
    req[p].kind = "create" =>
      /\ loc[p].attempts <= 3
      /\ kvOps[p] <= loc[p].attempts + 2
      /\ kvOps[p] <= 3 + 1
      /\ pc[p] = "c_get" => (loc[p].attempts < 3 /\ kvOps[p] = loc[p].attempts + 1)
      /\ pc[p] = "c_put" => (loc[p].attempts < 3 /\ kvOps[p] = loc[p].attempts + 2)
      /\ resp[p].status = 200 =>
           (kvOps[p] = loc[p].attempts + 2 /\ resp[p].body.secretId = loc[p].secretId)
      /\ loc[p].attempts = 3 <=> resp[p] = ServiceBusy
      /\ loc[p].attempts = 3 => (pc[p] = "done" /\ kvOps[p] = 3)

\* the lifetimes the five bucket names stand for, in seconds
ClaimedBuckets ==
  [k \in {"5min", "30min", "1hour", "6hour", "1day"} |->
     CASE k = "5min" -> 300
       [] k = "30min" -> 1800
       [] k = "1hour" -> 3600
       [] k = "6hour" -> 21600
       [] k = "1day" -> 86400]

ClaimedTtl(expiryOption, readOnce) ==
  IF readOnce = JBool(TRUE) THEN 86400
  ELSE IF expiryOption.t = "string" /\ expiryOption.s \in DOMAIN ClaimedBuckets
    THEN ClaimedBuckets[expiryOption.s]
  ELSE 86400

\* C12: for every expiryOption (absent, a bucket name, any other value) and
\* readOnce, the effective TTL computed by either definition is a number of
\* at least 60: 86400 when readOnce is true, else the bucket's seconds for a
\* bucket name and 86400 for anything else.
C12_TtlTotal ==
  (calc.fn \in {"effectiveKvTtl", "getEffectiveTTL"} /\ calc.out # Pending) =>
    /\ calc.out.t = "number"
    /\ calc.out.v >= 60
    /\ calc.out = JNum(ClaimedTtl(calc.expiryOption, calc.readOnce))

\* the shape of a payload: the four invalid shapes and the acceptable one
Shape(e) ==
  IF e.t = "undefined" THEN "absent"
  ELSE IF e.t # "string" THEN "not a string"
  ELSE IF e.len = 0 THEN "empty"
  ELSE IF e.len > MAX_PAYLOAD_SIZE THEN "too large"
  ELSE "accepted"

\* C13: validatePayload accepts exactly the non-empty strings within the
\* maximum size, and payloads of two different shapes (absent, not a string,
\* empty, too large, accepted) never get the same result: each invalid shape
\* has an error message of its own.
C13_DistinctReasons ==
  (calc.fn = "validatePayload" /\ calc.out # Pending) =>
    /\ calc.out.valid <=> Shape(calc.arg) = "accepted"
    /\ \A e \in PayloadInputs :
         Shape(e) # Shape(calc.arg) => validatePayload(e) # calc.out

\* C14: no 500 response carries, in any field of its body, the message of
\* the error that was thrown: the body is the same whatever that message is.
C14_NoErrorText ==
  \A p \in Procs :
    resp[p].status = 500 =>
      \A k \in DOMAIN resp[p].body, e \in Errors : resp[p].body[k] # e.message

\* C15: once every byte value 0..255 has been mapped to its character, each
\* of the 62 characters has been counted the same number of times.
C15_Unbiased ==
  (calc.fn = "tally" /\ calc.byte \notin ByteValues) =>
    \A c, d \in Alphanumeric : calc.count[c] = calc.count[d]

\* C16: whatever bytes the random source returns, the generated id has
\* exactly 16 characters, all of them in [A-Za-z0-9], and the read side's
\* validator accepts it.
C16_IdShape ==
  (calc.fn = "generateId" /\ calc.out # Pending) =>
    /\ Len(calc.out) = 16
    /\ \A i \in 1..Len(calc.out) : calc.out[i] \in Alphanumeric
    /\ ~BadId(calc.out)
    /\ calc.read # Pending => calc.read = Valid

\* an id drawn from the largest byte value on was generated and validated
C16_Witness ==
  /\ calc.fn = "generateId"
  /\ calc.randomValues[1] = 255
  /\ calc.randomValues[2] = 0
  /\ calc.out # Pending
  /\ calc.read = Valid

\* the response carries a secretId
HasSecretId(r) == "body" \in DOMAIN r /\ "secretId" \in DOMAIN r.body

\* a store call of the create in slot p is rejected in this step
CreateCallFails(p) == pc[p] \in {"c_get", "c_put"} /\ kvFail'[p] /\ ~kvFail[p]

\* C17: a response carrying a secretId is a 200 given in the step in which
\* the put of that id completes, the store then holding the entry under the
\* id; a create whose existence check or put is rejected answers 500 without
\* a secretId and leaves the store as it was, and after a rejected existence
\* check it is finished without a put having been issued.
C17_IdOnlyAfterPut ==
  [][\A p \in Procs :
       /\ (resp'[p] # resp[p] /\ HasSecretId(resp'[p])) =>
            /\ pc[p] = "c_put"
            /\ ~kvFail'[p]
            /\ resp'[p] = Json(200, [secretId |-> loc[p].secretId])
            /\ store'[loc[p].secretId] = Entry(req[p].body, loc[p].creationTime)
       /\ CreateCallFails(p) =>
            /\ resp'[p].status = 500
            /\ ~HasSecretId(resp'[p])
            /\ pc'[p] = "done"
            /\ store' = store
       /\ (CreateCallFails(p) /\ pc[p] = "c_get") =>
            /\ kvOps'[p] = kvOps[p]
            /\ kvOps[p] = loc[p].attempts + 1]_vars

\* one create was answered 200 with the id its put stored, another one's
\* existence check was rejected and it was answered 500
C17_Witness ==
  \E p, q \in Procs :
    /\ pc[p] = "done" /\ req[p].kind = "create"
    /\ resp[p] = Json(200, [secretId |-> loc[p].secretId])
    /\ store[loc[p].secretId] = Entry(req[p].body, loc[p].creationTime)
    /\ pc[q] = "done" /\ req[q].kind = "create"
    /\ kvFail[q] /\ kvOps[q] = 1
    /\ resp[q] = Err(500, "Failed to create secret")

\* the read in slot p is answered in this step with a read-once secret
ReturnsReadOnce(p) == pc[p] = "r_get" /\ pc'[p] # "r_get" /\ ServedReadOnce(p)'

\* C18: (a) a read answered with a read-once secret has, in the same step,
\* handed the delete of the id it read to the background, and that delete,
\* when it lands, empties that id and no other; (b) every read-once entry
\* in the store carries the fixed expirationTtl of 86400 seconds, whatever
\* expiry option came with it; (c) a lookup the backend answers for an id
\* that holds nothing is answered 404; (d) the backend removing expired
\* entries, an id that holds a read-once secret is eventually empty, cleanup
\* deletes failing or not.
C18_EventuallyUnreadable ==
  /\ [][\A p \in Procs :
          /\ ReturnsReadOnce(p) =>
               /\ pc'[p] = "r_cleanup"
               /\ kvOps'[p] = kvOps[p] + 1
               /\ store[req[p].id] # None
               /\ resp'[p] = Found(store[req[p].id])
          /\ (pc[p] = "r_cleanup" /\ pc'[p] = "done" /\ store' # store) =>
               store' = [store EXCEPT ![req[p].id] = None]
          /\ (Looks(p) /\ Lookup(req[p].id) = None) =>
               resp'[p] = NotFoundResponse]_vars
  /\ [](\A i \in IdPool :
          ReadOnceEntry(store[i]) => store[i].expirationTtl = JNum(86400))
  /\ \A i \in IdPool : ReadOnceEntry(store[i]) ~> store[i] = None

\* a read-once secret was read, the cleanup delete of that read failed, the
\* backend removed the entry on expiry, and a read of the id was answered 404
C18_Witness ==
  \E p, q \in Procs :
    /\ ServedReadOnce(p) /\ pc[p] = "done" /\ kvFail[p]
    /\ sweep[req[p].id] = "failed"
    /\ store[req[p].id] = None
    /\ pc[q] = "done" /\ req[q].kind = "read" /\ req[q].id = req[p].id
    /\ resp[q] = NotFoundResponse

\* the entry under id is the one the finished create in slot q stored, and
\* no other put landed between q's existence check and q's put: the id held
\* nothing when q stored it
StoredOnEmpty(q, id) ==
  /\ pc[q] = "done" /\ req[q].kind = "create"
  /\ resp[q] = Json(200, [secretId |-> id])
  /\ ~raced[q]
  /\ store[id] = Entry(req[q].body, loc[q].creationTime)

\* the cleanup delete of the read in slot p settles in this step
CleanupSettles(p) == pc[p] = "r_cleanup" /\ pc'[p] = "done"

\* C19: a cleanup delete leaves alone a secret other than the one its read
\* returned: when it settles while the id holds a non-read-once secret that
\* a create stored after the id had become empty, that secret stays.
C19_DeleteOnlyOwn ==
  [][\A p, q \in Procs :
       (CleanupSettles(p) /\ StoredOnEmpty(q, req[p].id)
          /\ ~ReadOnceEntry(store[req[p].id])) =>
         store'[req[p].id] = store[req[p].id]]_vars

\* the request in slot p takes a step
Steps(p) == pc'[p] # pc[p]

\* a response of a read that is no read-once secret: 400, 404, or a secret
\* whose metadata readOnce is false
NoCleanupResponse(r) ==
  \/ r.status \in {400, 404}
  \/ r.status = 200 /\ r.body.metadata.readOnce = JBool(FALSE)

\* C20: the steps of a read up to its response leave the store as it is; a
\* read answered 400, 404 or with a secret whose readOnce is false is
\* finished with that step, having issued no store call but its lookup (none
\* at all for a 400); and the only store change a read ever makes is its
\* cleanup delete emptying the id of the read-once secret it returned, never
\* a put.
C20_ReadFrame ==
  /\ [][\A p \in Procs :
          /\ (Steps(p) /\ req'[p].kind = "read" /\ pc[p] \in {"next", "r_get"}) =>
               /\ store' = store
               /\ NoCleanupResponse(resp'[p]) =>
                    /\ pc'[p] = "done"
                    /\ kvOps'[p] = IF resp'[p].status = 400 THEN 0 ELSE 1
          /\ (Steps(p) /\ req[p].kind = "read" /\ store' # store) =>
               /\ pc[p] = "r_cleanup"
               /\ ServedReadOnce(p)
               /\ store' = [store EXCEPT ![req[p].id] = None]]_vars
  /\ [](\A p \in Procs :
          (req[p].kind = "read" /\ pc[p] = "done" /\ NoCleanupResponse(resp[p])) =>
            kvOps[p] <= 1)

\* one read was answered with a secret whose readOnce is false, which is
\* still stored as it was returned, and another read was answered 404
C20_Witness ==
  \E p, q \in Procs :
    /\ req[p].kind = "read" /\ pc[p] = "done" /\ kvOps[p] = 1
    /\ resp[p].status = 200
    /\ resp[p].body.metadata.readOnce = JBool(FALSE)
    /\ Lookup(req[p].id) # None
    /\ resp[p] = Found(Lookup(req[p].id))
    /\ req[q].kind = "read" /\ pc[q] = "done" /\ kvOps[q] = 1
    /\ resp[q] = NotFoundResponse

=============================================================================
